---------------------------- MODULE Spec2Model ----------------------------
(***************************************************************************)
(* A model of the quota-aware collection and scoring core of               *)
(* src/youtubetest3.py (class YouTubeAnalytics): the quota ledger          *)
(* (quota_limit, quota_used, check_quota), the collection cache, the       *)
(* collector collect_videos_data, the scorer calculate_engagement_scores   *)
(* and the weekday and hour tables of create_dashboard.                    *)
(*                                                                         *)
(* Numbers: the code computes ratios and scores in binary floating point.  *)
(* The model computes them as exact fractions [num, den] in lowest terms   *)
(* and compares them by cross multiplication.  Time is counted in whole    *)
(* hours.                                                                  *)
(***************************************************************************)
EXTENDS Integers, Sequences, FiniteSets, TLC

VARIABLES
    quota_used,     \* self.quota_used
    cache,          \* self.cache: a function from the cache keys present to results
    op,             \* the operation that produced this state
    arg,            \* its argument: a cost (check_quota) or a cache key (collect)
    ret,            \* what it gave its caller: [kind: "return" | "raise", val]
    calls,          \* the reserves and remote calls of the last collect, in order
    shown,          \* what the last collect displayed with st.error: the exception's text
    quota_before,   \* quota_used when the operation began
    cache_before,   \* cache when the operation began
    hits,           \* the video ids of the hits of the last collect's search, in order
    completed,      \* the cache keys a collect has stored a result for in this process
    repeat,         \* the last collect's key was in completed when it was called
    outcomes,       \* per cause of an ended collect, the outcomes its callers have seen
    nops,           \* number of operations so far
    thr_pc,         \* concurrent reserve: each caller's position in check_quota
    thr_cost,       \* concurrent reserve: each caller's cost argument
    thr_tmp,        \* concurrent reserve: the value each caller loaded for +=
    videos_in,      \* scorer: the input sequence
    scored,         \* scorer: [done, out], the output for videos_in once computed
    tz_offset,      \* the server's local time minus UTC, in hours
    stats,          \* dashboard: [done, ret], what create_dashboard(scored.out) gave
    session_state,  \* st.session_state: a function from the keys present to values
    remaining_analysis_count,   \* the user's row of the users table
    run_pc,         \* run_analysis: "idle", the line the run has reached, or "ended"
    remaining_count,    \* run_analysis: its local remaining_count (line 552)
    run_log         \* run_analysis: [how, set_flag, got_data, count_at_start]

vars == << quota_used, cache, op, arg, ret, calls, shown, quota_before, cache_before,
           hits, completed, repeat, outcomes, nops, thr_pc, thr_cost, thr_tmp, videos_in, scored,
           tz_offset, stats, session_state, remaining_analysis_count, run_pc,
           remaining_count, run_log >>

ledgerVars == << quota_used, cache, op, arg, ret, calls, shown, quota_before, cache_before,
                 hits, completed, repeat, outcomes, nops >>
thrVars == << thr_pc, thr_cost, thr_tmp >>
scoreVars == << videos_in, scored >>
runVars == << session_state, remaining_analysis_count, run_pc, remaining_count, run_log >>

---------------------------------------------------------------------------
(* Program constants *)

quota_limit == 10000
SearchCost == 100
MinViews == 1000
TopN == 20
WeekDays == 7

(* Bounds of the model *)

MaxOps == 3         \* operations per behaviour of Spec
MaxHits == 2        \* hits one search returns
NThreads == 2       \* concurrent callers of check_quota in SpecConc
MaxFree == 3        \* scorer inputs: length of the freely chosen prefix
MaxVideos == 22     \* scorer inputs: greatest length
MaxRows == 3        \* dashboard inputs: greatest number of videos
MaxCount == 2       \* run_analysis: greatest remaining_analysis_count at the start

---------------------------------------------------------------------------
(* What an operation gives its caller *)

Return(v) == [kind |-> "return", val |-> v]
Raise(v) == [kind |-> "raise", val |-> v]

---------------------------------------------------------------------------
(* Arithmetic helpers *)

Min(a, b) == IF a <= b THEN a ELSE b

RECURSIVE GCD(_, _)
GCD(a, b) == IF b = 0 THEN a ELSE GCD(b, a % b)

LCM(a, b) == (a * b) \div GCD(a, b)

\* the fraction n/d (d > 0) in lowest terms
Frac(n, d) == LET g == GCD(n, d) IN [num |-> n \div g, den |-> d \div g]

FracLess(x, y) == x.num * y.den < y.num * x.den

RECURSIVE SeqSum(_)
SeqSum(s) == IF s = << >> THEN 0 ELSE Head(s) + SeqSum(Tail(s))

RECURSIVE SeqLCM(_)
SeqLCM(s) == IF s = << >> THEN 1 ELSE LCM(Head(s), SeqLCM(Tail(s)))

---------------------------------------------------------------------------
(* The quota ledger: check_quota *)

\* a test that looks at what is used so far and leaves the cost out
QuotaAdmitsIgnoringCost(used, cost) == ~(used > quota_limit)

\* line 68, negated: the reserve of cost goes through
QuotaAdmits(used, cost) == ~(used + cost > quota_limit)

\* a reserve that debits first and tests afterwards, so a raise keeps the debit
check_quota_DebitFirst(used, cost) ==
    [ok |-> ~(used + cost > quota_limit), used |-> used + cost]

\* lines 66-71: [ok, used]; a raise leaves quota_used as it was
check_quota(used, cost) ==
    IF QuotaAdmits(used, cost)
    THEN [ok |-> TRUE, used |-> used + cost]
    ELSE [ok |-> FALSE, used |-> used]

---------------------------------------------------------------------------
(* The scorer: calculate_engagement_scores                                 *)
(* A video is [id, publishedAt, views, likes, comments, comments_data];    *)
(* publishedAt is the publish instant as hours of UTC wall-clock time.     *)

\* the evaluation instant, in hours of UTC; hour 0 is 00:00 UTC of a Monday
NowHours == 24 * 400

\* line 234, datetime.now(): the naive wall-clock time of the server's zone
now == NowHours + tz_offset

\* line 234
one_week_ago == now - 24 * WeekDays

\* lines 244, 253, 263: publish_date > one_week_ago, publish_date being the
\* UTC wall-clock time of the publish instant with its zone removed
IsRecent(publishedAt) == publishedAt > one_week_ago

\* lines 226-229: the videos whose ratio enters the mean and the deviation
WithViews(videos) == SelectSeq(videos, LAMBDA u : u.views > 0)

\* the figures of the ratios R over the denominator L
StatsOfRatios(R, L) ==
    [L |-> L, n |-> Len(R), S |-> SeqSum(R),
     Q |-> SeqSum([i \in 1..Len(R) |-> R[i] * R[i]])]

\* lines 226-229: the ratios of the records pos over the denominator L
RatiosOver(pos, L) ==
    StatsOfRatios([i \in 1..Len(pos) |-> (100 * pos[i].comments * L) \div pos[i].views], L)

StatsOver(pos) == RatiosOver(pos, SeqLCM([i \in 1..Len(pos) |-> pos[i].views]))

\* lines 226-232: the batch figures behind the threshold, over the common
\* denominator L of the ratios: ratio_i = R_i / L, n = number of ratios,
\* S = sum of R_i, Q = sum of R_i squared
BatchStats(videos) == StatsOver(WithViews(videos))

\* line 246 over the denominator L
RatioOver(v, L) == IF v.views > 0 THEN (100 * v.comments * L) \div v.views ELSE 0

\* a comparison that also drops a record whose ratio equals the threshold
ExceedsThresholdOrEquals(v, st) ==
    LET d == st.n * RatioOver(v, st.L) - st.S
    IN d >= 0 /\ d * d >= 4 * (st.n * st.Q - st.S * st.S)

\* lines 230-232, 249: comment_ratio > avg_ratio + 2 * std_ratio, that is
\* n*R - S > 2 * sqrt(n*Q - S*S); with no ratio at all the threshold is nan
\* and the comparison is false
ExceedsThreshold(v, st) ==
    LET d == st.n * RatioOver(v, st.L) - st.S
    IN d > 0 /\ d * d > 4 * (st.n * st.Q - st.S * st.S)

\* the division with no guard: count / views * 100 whatever views is, a zero
\* denominator standing for the division that cannot be done
RatioUnguarded(count, views) == [num |-> 100 * count, den |-> views]

\* lines 246, 252: count / views * 100, or 0 when views = 0
Ratio(count, views) == IF views > 0 THEN Frac(100 * count, views) ELSE Frac(0, 1)

\* lines 253-258: (like_ratio + comment_ratio * 3) * recency_score
EngagementScore(v) ==
    IF v.views > 0
    THEN Frac((100 * v.likes + 300 * v.comments)
                  * (IF IsRecent(v.publishedAt) THEN 12 ELSE 10),
              10 * v.views)
    ELSE Frac(0, 1)

\* lines 260-265: the video with its enrichment fields
Enrich(v) ==
    [id |-> v.id, publishedAt |-> v.publishedAt, views |-> v.views,
     likes |-> v.likes, comments |-> v.comments, comments_data |-> v.comments_data,
     engagement_score |-> EngagementScore(v),
     like_ratio |-> Ratio(v.likes, v.views),
     comment_ratio |-> Ratio(v.comments, v.views),
     is_recent |-> IsRecent(v.publishedAt)]

\* lines 260-265 for each record of kept
EnrichAll(kept) == [i \in 1..Len(kept) |-> Enrich(kept[i])]

\* lines 237-265 with the batch figures st
KeptUnder(videos, st) ==
    EnrichAll(SelectSeq(videos, LAMBDA v : ~ExceedsThreshold(v, st)))

\* lines 236-265: the videos kept by the outlier step, enriched, in input order
Survivors(videos) == KeptUnder(videos, BatchStats(videos))

\* a sort that puts x in front of the records it ties with
GoesBeforeOrTies(x, h) == ~FracLess(x.engagement_score, h.engagement_score)

\* sorted(..., reverse=True): x goes in front of h only when it scores strictly more
GoesBefore(x, h) == FracLess(h.engagement_score, x.engagement_score)

RECURSIVE InsertDesc(_, _)
InsertDesc(s, x) ==
    IF s = << >> THEN << x >>
    ELSE IF GoesBefore(x, Head(s)) THEN << x >> \o s
    ELSE << Head(s) >> \o InsertDesc(Tail(s), x)

RECURSIVE SortedDesc(_)
\* lines 272-276: sorted(processed_videos, key=engagement_score, reverse=True)
SortedDesc(s) ==
    IF s = << >> THEN << >>
    ELSE InsertDesc(SortedDesc(SubSeq(s, 1, Len(s) - 1)), s[Len(s)])

\* line 276: [:20]
Truncate(s) == SubSeq(s, 1, Min(TopN, Len(s)))

\* lines 221-276
calculate_engagement_scores(videos) ==
    IF videos = << >> THEN << >>
    ELSE Truncate(SortedDesc(Survivors(videos)))

---------------------------------------------------------------------------
(* The temporal tables: calculate_weekday_stats, calculate_hourly_stats and *)
(* the peaks create_dashboard takes from them.  A table is the sequence of  *)
(* its rows in index order; a cell is [nan, v], nan = TRUE for a missing    *)
(* value (NaN).  Means are held in hundredths (round(2)), sums and counts   *)
(* as they are.                                                            *)

\* lines 282, 286: Asia/Seoul is UTC+9 with no daylight saving time
SeoulOffset == 9

\* lines 291-296: the keys of weekday_korean in the order of weekday_order
weekday_order ==
    << "Monday", "Tuesday", "Wednesday", "Thursday", "Friday", "Saturday", "Sunday" >>

\* line 338: range(24)
all_hours == [i \in 1..24 |-> i - 1]

\* a date column left in UTC
ToSeoulNoShift(publishedAt) == publishedAt

\* lines 349 and 280-286 / 317-323: the date column is tz-aware UTC, so the
\* chain of line 282 raises TypeError at Series.tz_localize('UTC') and line
\* 286 converts the column to Asia/Seoul: the wall-clock hours in Seoul
ToSeoul(publishedAt) == publishedAt + SeoulOffset

\* line 288: dt.day_name() of a wall-clock time
day_name(h) == weekday_order[((h \div 24) % 7) + 1]

\* line 325: dt.hour of a wall-clock time
hour(h) == h % 24

NaN == [nan |-> TRUE, v |-> 0]
Num(v) == [nan |-> FALSE, v |-> v]

\* round(2) of num / den (num >= 0, den > 0), in hundredths, halves to even
Round2(num, den) ==
    LET q == (100 * num) \div den
        r == (100 * num) % den
    IN IF 2 * r > den \/ (2 * r = den /\ q % 2 = 1) THEN q + 1 ELSE q

FracAdd(x, y) == Frac(x.num * y.den + y.num * x.den, x.den * y.den)

RECURSIVE FracSum(_)
FracSum(s) == IF s = << >> THEN Frac(0, 1) ELSE FracAdd(Head(s), FracSum(Tail(s)))

\* lines 298-306 / 327-335: the row of the aggregates of one group
AggRow(key, g) ==
    LET n == Len(g)
        views == SeqSum([i \in 1..n |-> g[i].views])
        comments == SeqSum([i \in 1..n |-> g[i].comments])
        likes == SeqSum([i \in 1..n |-> g[i].likes])
        score == FracSum([i \in 1..n |-> g[i].engagement_score])
    IN [key |-> key,
        views_mean |-> Num(Round2(views, n)), views_sum |-> Num(views), count |-> Num(n),
        comments_mean |-> Num(Round2(comments, n)), comments_sum |-> Num(comments),
        likes_mean |-> Num(Round2(likes, n)), likes_sum |-> Num(likes),
        engagement_mean |-> Num(Round2(score.num, score.den * n))]

\* a row reindex adds for a key that no group has
FilledRow(key, c) ==
    [key |-> key, views_mean |-> c, views_sum |-> c, count |-> c,
     comments_mean |-> c, comments_sum |-> c, likes_mean |-> c, likes_sum |-> c,
     engagement_mean |-> c]

\* lines 278-313: groupby weekday, reindex(weekday_order); no fillna
calculate_weekday_stats(df) ==
    [i \in 1..Len(weekday_order) |->
        LET g == SelectSeq(df, LAMBDA r : day_name(ToSeoul(r.publishedAt)) = weekday_order[i])
        IN IF g = << >> THEN FilledRow(weekday_order[i], NaN)
           ELSE AggRow(weekday_order[i], g)]

\* lines 315-341: groupby hour, reindex(range(24)).fillna(0)
calculate_hourly_stats(df) ==
    [i \in 1..Len(all_hours) |->
        LET g == SelectSeq(df, LAMBDA r : hour(ToSeoul(r.publishedAt)) = all_hours[i])
        IN IF g = << >> THEN FilledRow(all_hours[i], Num(0))
           ELSE AggRow(all_hours[i], g)]

\* the position of the last of the rows that hold the greatest value
idxmaxLast(t, col) ==
    LET def == { i \in 1..Len(t) : ~t[i][col].nan }
    IN CHOOSE i \in def :
          /\ \A j \in def : t[j][col].v <= t[i][col].v
          /\ \A j \in def : j > i => t[j][col].v < t[i][col].v

\* Series.idxmax(): the position of the first of the rows that hold the
\* greatest value, NaN skipped
idxmax(t, col) ==
    LET def == { i \in 1..Len(t) : ~t[i][col].nan }
    IN CHOOSE i \in def :
          /\ \A j \in def : t[j][col].v <= t[i][col].v
          /\ \A j \in def : j < i => t[j][col].v < t[i][col].v

\* lines 370-387: self.temporal_stats, the peaks of a table
Peaks(t) ==
    [max_views |-> t[idxmax(t, "views_mean")].key,
     max_views_value |-> t[idxmax(t, "views_mean")].views_mean,
     max_engagement |-> t[idxmax(t, "engagement_mean")].key]

\* lines 344-387: create_dashboard(pd.DataFrame(videos)).  A frame made from
\* no record has no column, and df['publishedAt'] (line 349) raises KeyError
create_dashboard(videos) ==
    IF videos = << >> THEN Raise("KeyError")
    ELSE LET weekday_stats == calculate_weekday_stats(videos)
             hourly_stats == calculate_hourly_stats(videos)
         IN Return([weekday_stats |-> weekday_stats, hourly_stats |-> hourly_stats,
                    weekday_peaks |-> Peaks(weekday_stats),
                    hourly_peaks |-> Peaks(hourly_stats)])

---------------------------------------------------------------------------
(* The remote video source, as the collector sees it                       *)

Keywords == {"a", "b"}
DateRanges == {1, 12}

\* lines 146-159: the partial record built from the i-th hit of a search
Hit(keyword, i) ==
    [id |-> IF keyword = "a" THEN i ELSE 10 + i,
     publishedAt |-> IF i % 2 = 1 THEN NowHours - 48 ELSE NowHours - 720]

\* the statistics the remote source holds for a video; has = FALSE when its
\* item is absent from the videos().list response
StatsOf(id) ==
    CASE id % 4 = 1 -> [has |-> TRUE, views |-> 2000, likes |-> 10, comments |-> 10]
      [] id % 4 = 2 -> [has |-> TRUE, views |-> 1000, likes |-> 50, comments |-> 5]
      [] id % 4 = 0 -> [has |-> TRUE, views |-> 999, likes |-> 50, comments |-> 5]
      [] OTHER      -> [has |-> FALSE, views |-> 0, likes |-> 0, comments |-> 0]

\* the texts of a successful commentThreads().list for a video
CommentsOf(id) == << "text" >>

---------------------------------------------------------------------------
(* The collector: collect_videos_data                                      *)

\* line 122
CacheKey(keyword, date_range) == keyword \o "_" \o ToString(date_range)

\* an entry of the log of one collect: a reserve (n = its cost) or a remote
\* call (n = 0); id = the video of a per-video reserve or comment fetch, else
\* 0; ok = it did not raise
Ev(e, n, id, ok) == [ev |-> e, n |-> n, id |-> id, ok |-> ok]

\* line 213: self.cache[cache_key] = processed_videos
CachePut(cch, key, v) ==
    [k \in DOMAIN cch \cup {key} |-> IF k = key THEN v ELSE cch[k]]

\* str(e) of the exception that reached the outer handler: the text of line
\* 69 for a refused reserve, the remote library's text otherwise
ErrorText(cause) == IF cause = "quota" THEN "quota exceeded" ELSE "remote error"

\* a handler that stores the empty result under the key before returning it
OnCollectErrorCaches(used, cch, key, log, cause) ==
    [used |-> used, cache |-> CachePut(cch, key, << >>), ret |-> Return(<< >>),
     calls |-> log, cause |-> cause, shown |-> ErrorText(cause)]

\* lines 217-219: the handler of every exception that reaches the outer try:
\* st.error, return [], the cache untouched
OnCollectError(used, cch, key, log, cause) ==
    [used |-> used, cache |-> cch, ret |-> Return(<< >>), calls |-> log,
     cause |-> cause, shown |-> ErrorText(cause)]

\* no handler around the per-video try: the exception goes on to the outer try
OnCommentErrorAborts(st, id) == st

\* lines 189-190: the handler of every exception raised in the per-video try:
\* comments_data = [] and the loop goes on (raised is cleared)
OnCommentError(st, id) ==
    [st EXCEPT !.raised = FALSE]

\* a per-video step that issues the comment fetch whether or not the reserve
\* went through
CommentStepFetchAnyway(st, id, fetchFails) ==
    LET r == check_quota(st.used, 1)
    IN [st EXCEPT !.used = r.used,
                  !.log = @ \o << Ev("check_quota", 1, id, r.ok),
                                  Ev("comments", 0, id, ~fetchFails) >>,
                  !.got = IF fetchFails THEN @ ELSE @ \cup {id}]

\* a per-video step that debits the comment unit only when the fetch succeeds
CommentStepDebitOnSuccess(st, id, fetchFails) ==
    LET r == check_quota(st.used, 1)
    IN IF ~r.ok
       THEN [st EXCEPT !.log = Append(@, Ev("check_quota", 1, id, FALSE))]
       ELSE IF fetchFails
       THEN [st EXCEPT !.log = @ \o << Ev("check_quota", 1, id, TRUE),
                                       Ev("comments", 0, id, FALSE) >>]
       ELSE [st EXCEPT !.used = r.used,
                       !.log = @ \o << Ev("check_quota", 1, id, TRUE),
                                       Ev("comments", 0, id, TRUE) >>,
                       !.got = @ \cup {id}]

\* lines 176-190, one video: st = [used, log, got, raised]; got holds the
\* ids whose comments were fetched
CommentStep(st, id, fetchFails) ==
    LET r == check_quota(st.used, 1)
    IN IF ~r.ok
       THEN OnCommentError([st EXCEPT !.log = Append(@, Ev("check_quota", 1, id, FALSE)),
                                      !.raised = TRUE], id)
       ELSE IF fetchFails
       THEN OnCommentError([st EXCEPT !.used = r.used,
                                      !.log = @ \o << Ev("check_quota", 1, id, TRUE),
                                                      Ev("comments", 0, id, FALSE) >>,
                                      !.raised = TRUE], id)
       ELSE [st EXCEPT !.used = r.used,
                       !.log = @ \o << Ev("check_quota", 1, id, TRUE),
                                       Ev("comments", 0, id, TRUE) >>,
                       !.got = @ \cup {id}]

RECURSIVE CommentLoop(_, _, _, _)
\* lines 175-190: for video in videos, from the i-th on; an exception that
\* leaves the per-video try ends the loop
CommentLoop(st, videos, i, cfail) ==
    IF i > Len(videos) \/ st.raised THEN st
    ELSE CommentLoop(CommentStep(st, videos[i].id, i \in cfail), videos, i + 1, cfail)

\* lines 192-202 and 185-190: the record of a hit after the join
Joined(h, got) ==
    LET s == StatsOf(h.id)
    IN [id |-> h.id, publishedAt |-> h.publishedAt,
        has_stats |-> s.has, views |-> s.views, likes |-> s.likes,
        comments |-> s.comments,
        comments_data |-> IF h.id \in got THEN CommentsOf(h.id) ELSE << >>]

\* a filter that tests only the records that got statistics
PassesFilterNoDefault(v) == v.has_stats => v.views >= MinViews

\* line 207: video.get('views', 0) >= 1000
PassesFilter(v) == (IF v.has_stats THEN v.views ELSE 0) >= MinViews

\* an end of the collect that treats an empty result as an error: it raises
\* and stores nothing
FinishRaisesOnEmpty(used, cch, key, log, videos, got) ==
    LET joined == [i \in 1..Len(videos) |-> Joined(videos[i], got)]
        filtered == SelectSeq(joined, PassesFilter)
        processed == calculate_engagement_scores(filtered)
    IN IF processed = << >>
       THEN [used |-> used, cache |-> cch, ret |-> Raise("empty"), calls |-> log,
             cause |-> "nodata", shown |-> "empty"]
       ELSE [used |-> used, cache |-> CachePut(cch, key, processed),
             ret |-> Return(processed), calls |-> log, cause |-> "data", shown |-> ""]

\* lines 204-215: filter, score, cache, return
Finish(used, cch, key, log, videos, got) ==
    LET joined == [i \in 1..Len(videos) |-> Joined(videos[i], got)]
        filtered == SelectSeq(joined, PassesFilter)
        processed == calculate_engagement_scores(filtered)
    IN [used |-> used, cache |-> CachePut(cch, key, processed),
        ret |-> Return(processed), calls |-> log,
        cause |-> IF processed = << >> THEN "nodata" ELSE "data", shown |-> ""]

\* lines 161-202: the statistics call and the comment loop, for n >= 1 hits
WithHits(used, cch, key, log, videos, stfail, cfail) ==
    LET r == check_quota(used, Len(videos))
        log2 == Append(log, Ev("check_quota", Len(videos), 0, r.ok))
    IN IF ~r.ok THEN OnCollectError(r.used, cch, key, log2, "quota")
       ELSE IF stfail
       THEN OnCollectError(r.used, cch, key, Append(log2, Ev("statistics", 0, 0, FALSE)),
                           "remote")
       ELSE LET st == CommentLoop([used |-> r.used,
                                   log |-> Append(log2, Ev("statistics", 0, 0, TRUE)),
                                   got |-> {}, raised |-> FALSE],
                                  videos, 1, cfail)
            IN IF st.raised
               THEN OnCollectError(st.used, cch, key, st.log, "remote")
               ELSE Finish(st.used, cch, key, st.log, videos, st.got)

\* lines 121-219.  n = the number of hits the search returns, sfail / stfail =
\* the search / statistics call raises, cfail = the positions of the videos
\* whose comment fetch raises
collect_videos_data(used, cch, keyword, date_range, n, sfail, stfail, cfail) ==
    LET key == CacheKey(keyword, date_range)
        r == check_quota(used, SearchCost)
        log == << Ev("check_quota", SearchCost, 0, r.ok) >>
        videos == [i \in 1..n |-> Hit(keyword, i)]
    IN IF key \in DOMAIN cch
       THEN [used |-> used, cache |-> cch, ret |-> Return(cch[key]),
             calls |-> << >>, cause |-> "hit", shown |-> ""]
       ELSE IF ~r.ok THEN OnCollectError(r.used, cch, key, log, "quota")
       ELSE IF sfail
       THEN OnCollectError(r.used, cch, key, Append(log, Ev("search", 0, 0, FALSE)),
                           "remote")
       ELSE IF n = 0
       THEN Finish(r.used, cch, key, Append(log, Ev("search", 0, 0, TRUE)), videos, {})
       ELSE WithHits(r.used, cch, key, Append(log, Ev("search", 0, 0, TRUE)),
                     videos, stfail, cfail)

---------------------------------------------------------------------------
(* The program as a state machine: one instance of YouTubeAnalytics, its   *)
(* methods called one after the other, and the re-execution of the script  *)
(* (Streamlit runs the file again, in the same process, on every user      *)
(* interaction), which constructs a new instance.                          *)

Causes == {"quota", "remote", "nodata"}

\* the costs of the direct calls of check_quota
Costs == {0, 50, quota_limit - 103, quota_limit - 100}

EmptyCache == [k \in {} |-> << >>]

\* the zones the server may run in: UTC and Asia/Seoul
TzOffsets == {0, 9}

ThreadIds == 1..NThreads

IdleThreads ==
    /\ thr_pc = [t \in ThreadIds |-> "idle"]
    /\ thr_cost = [t \in ThreadIds |-> 0]
    /\ thr_tmp = [t \in ThreadIds |-> 0]

NoScoring ==
    /\ videos_in = << >>
    /\ scored = [done |-> FALSE, out |-> << >>]
    /\ stats = [done |-> FALSE, ret |-> Return(<< >>)]

\* no session state yet, and run_analysis not called
IdleRun ==
    /\ session_state = [k \in {} |-> FALSE]
    /\ run_pc = "idle"
    /\ remaining_count = 0
    /\ run_log = [how |-> "none", set_flag |-> FALSE, got_data |-> FALSE,
                  count_at_start |-> 0]

\* lines 22-26: the state after __init__
InitInstance ==
    /\ quota_used = 0
    /\ cache = EmptyCache
    /\ op = "init"
    /\ arg = 0
    /\ ret = Return(TRUE)
    /\ calls = << >>
    /\ shown = ""
    /\ quota_before = 0
    /\ cache_before = EmptyCache
    /\ hits = << >>
    /\ completed = {}
    /\ repeat = FALSE
    /\ outcomes = [c \in Causes |-> {}]
    /\ nops = 0
    /\ IdleThreads
    /\ NoScoring
    /\ tz_offset \in TzOffsets

\* the state after __init__, in a session that has run no analysis
Init ==
    /\ InitInstance
    /\ IdleRun
    /\ remaining_analysis_count = 0

\* lines 66-71, called with cost
CheckQuota(cost) ==
    /\ nops < MaxOps
    /\ LET r == check_quota(quota_used, cost)
       IN /\ quota_used' = r.used
          /\ ret' = IF r.ok THEN Return(TRUE) ELSE Raise("quota")
    /\ op' = "check_quota"
    /\ arg' = cost
    /\ calls' = << >>
    /\ shown' = ""
    /\ quota_before' = quota_used
    /\ cache_before' = cache
    /\ nops' = nops + 1
    /\ hits' = << >>
    /\ repeat' = FALSE
    /\ UNCHANGED << cache, completed, outcomes, thrVars, scoreVars, tz_offset, stats, runVars >>

\* the state after a collect that came out as r
CollectDone(keyword, date_range, n, r) ==
    /\ nops < MaxOps
    /\ quota_used' = r.used
    /\ cache' = r.cache
    /\ ret' = r.ret
    /\ calls' = r.calls
    /\ shown' = r.shown
    /\ hits' = IF \E i \in 1..Len(r.calls) : r.calls[i].ev = "search" /\ r.calls[i].ok
                THEN [i \in 1..n |-> Hit(keyword, i).id] ELSE << >>
    /\ completed' = IF r.cause \in {"hit", "data", "nodata"}
                    THEN completed \cup {CacheKey(keyword, date_range)}
                    ELSE completed
    /\ outcomes' = IF r.cause \in Causes
                   THEN [outcomes EXCEPT ![r.cause] = @ \cup {r.ret}]
                   ELSE outcomes
    /\ op' = "collect"
    /\ arg' = CacheKey(keyword, date_range)
    /\ quota_before' = quota_used
    /\ cache_before' = cache
    /\ repeat' = (CacheKey(keyword, date_range) \in completed)
    /\ nops' = nops + 1
    /\ UNCHANGED << thrVars, scoreVars, tz_offset, stats >>

\* lines 121-219, called with self.keyword = keyword and self.date_range = date_range
Collect(keyword, date_range, n, sfail, stfail, cfail) ==
    /\ CollectDone(keyword, date_range, n,
                   collect_videos_data(quota_used, cache, keyword, date_range,
                                       n, sfail, stfail, cfail))
    /\ UNCHANGED runVars

\* lines 1143-1145 and 22-26: the script runs again in the same process and
\* its __main__ block constructs a new YouTubeAnalytics
Main ==
    /\ nops < MaxOps
    /\ quota_used' = 0
    /\ cache' = EmptyCache
    /\ op' = "main"
    /\ arg' = 0
    /\ ret' = Return(TRUE)
    /\ calls' = << >>
    /\ shown' = ""
    /\ quota_before' = quota_used
    /\ cache_before' = cache
    /\ nops' = nops + 1
    /\ hits' = << >>
    /\ repeat' = FALSE
    /\ UNCHANGED << completed, outcomes, thrVars, scoreVars, tz_offset, stats, runVars >>

\* the inputs of one collect: what the remote source answers
CollectInputs ==
    { x \in [n : 0..MaxHits, sfail : BOOLEAN, stfail : BOOLEAN,
             cfail : SUBSET (1..MaxHits)] :
        /\ x.cfail \subseteq 1..x.n
        /\ x.sfail => (x.n = 0 /\ ~x.stfail)
        /\ x.stfail => (x.n > 0 /\ x.cfail = {}) }

\* the (keyword, date_range) pairs the user asks for: two keywords with one
\* date range, and one of the keywords with another date range
Requests ==
    { q \in [keyword : Keywords, date_range : DateRanges] :
        q.keyword = "a" \/ q.date_range = 12 }

Next ==
    \/ \E c \in Costs : CheckQuota(c)
    \/ \E q \in Requests, x \in CollectInputs :
          Collect(q.keyword, q.date_range, x.n, x.sfail, x.stfail, x.cfail)
    \/ Main

Spec == Init /\ [][Next]_vars

---------------------------------------------------------------------------
(* check_quota under concurrent callers.  The method takes no lock, so the *)
(* read of line 68 and the read and the write of line 70 (self.quota_used  *)
(* += cost: load the attribute, add, store the attribute) of one caller    *)
(* interleave with those of the others.  Each caller makes one call.       *)

\* the costs of the concurrent reserves
ConcCosts == {1, quota_limit - 4000, quota_limit}

InitConc ==
    /\ Init

\* a caller enters check_quota(cost)
ThrCall(t, cost) ==
    /\ thr_pc[t] = "idle"
    /\ thr_pc' = [thr_pc EXCEPT ![t] = "l68"]
    /\ thr_cost' = [thr_cost EXCEPT ![t] = cost]
    /\ UNCHANGED << thr_tmp, ledgerVars, scoreVars, tz_offset, stats, runVars >>

\* line 68-69: the test reads quota_used; raise when it fails
ThrTest(t) ==
    /\ thr_pc[t] = "l68"
    /\ thr_pc' = [thr_pc EXCEPT ![t] = IF QuotaAdmits(quota_used, thr_cost[t])
                                       THEN "l70" ELSE "raised"]
    /\ UNCHANGED << thr_cost, thr_tmp, ledgerVars, scoreVars, tz_offset, stats, runVars >>

\* line 70, first half: load self.quota_used
ThrLoad(t) ==
    /\ thr_pc[t] = "l70"
    /\ thr_tmp' = [thr_tmp EXCEPT ![t] = quota_used]
    /\ thr_pc' = [thr_pc EXCEPT ![t] = "l70_store"]
    /\ UNCHANGED << thr_cost, ledgerVars, scoreVars, tz_offset, stats, runVars >>

\* line 70, second half, and line 71: store the sum, return True
ThrStore(t) ==
    /\ thr_pc[t] = "l70_store"
    /\ quota_used' = thr_tmp[t] + thr_cost[t]
    /\ thr_pc' = [thr_pc EXCEPT ![t] = "returned"]
    /\ UNCHANGED << thr_cost, thr_tmp, cache, op, arg, ret, calls, shown, quota_before,
                    cache_before, hits, completed, repeat, outcomes, nops, scoreVars,
                    tz_offset, stats, runVars >>

NextConc ==
    \/ \E t \in ThreadIds, c \in ConcCosts : ThrCall(t, c)
    \/ \E t \in ThreadIds : ThrTest(t)
    \/ \E t \in ThreadIds : ThrLoad(t)
    \/ \E t \in ThreadIds : ThrStore(t)

SpecConc == InitConc /\ [][NextConc]_vars

---------------------------------------------------------------------------
(* The scorer applied to bounded inputs: a freely chosen prefix of at most *)
(* MaxFree videos followed by copies of one video, MaxVideos in all.       *)

\* the videos the inputs are made of: [views, likes, comments, age], age =
\* the hours from the publish instant to the evaluation instant
VideoKinds ==
    { [views |-> 1, likes |-> 0, comments |-> 0, age |-> 720],
      [views |-> 2, likes |-> 1, comments |-> 0, age |-> 720],
      [views |-> 1, likes |-> 1, comments |-> 0, age |-> 720],
      [views |-> 2, likes |-> 1, comments |-> 0, age |-> 48],
      [views |-> 2, likes |-> 1, comments |-> 0, age |-> 164],
      [views |-> 1, likes |-> 0, comments |-> 1, age |-> 720],
      [views |-> 0, likes |-> 1, comments |-> 1, age |-> 720] }

FillerKind == [views |-> 2, likes |-> 1, comments |-> 0, age |-> 720]

\* the input record of a kind; its id is its position in the input
MkVideo(id, k) ==
    [id |-> id,
     publishedAt |-> NowHours - k.age,
     views |-> k.views, likes |-> k.likes, comments |-> k.comments,
     comments_data |-> << >>]

InitScore ==
    /\ Init

\* the caller adds a video to the sequence it will pass
AppendVideo(k) ==
    /\ Len(videos_in) < MaxVideos
    /\ Len(videos_in) < MaxFree \/ k = FillerKind
    /\ videos_in' = Append(videos_in, MkVideo(Len(videos_in) + 1, k))
    /\ scored' = [done |-> FALSE, out |-> << >>]
    /\ UNCHANGED << ledgerVars, thrVars, tz_offset, stats, runVars >>

\* lines 221-276: calculate_engagement_scores(videos_in)
Score ==
    /\ ~scored.done
    /\ scored' = [done |-> TRUE, out |-> calculate_engagement_scores(videos_in)]
    /\ UNCHANGED << videos_in, ledgerVars, thrVars, tz_offset, stats, runVars >>

NextScore ==
    \/ \E k \in VideoKinds : AppendVideo(k)
    \/ Score

SpecScore == InitScore /\ [][NextScore]_vars

---------------------------------------------------------------------------
(* The scorer followed by the dashboard, on bounded inputs: at most        *)
(* MaxRows videos that pass the collector's filter.                        *)

\* the videos the inputs are made of.  Hour 0 of the model's time is 00:00 UTC
\* of a Monday and the evaluation instant is a Tuesday, 00:00 UTC, so the ages
\* 48, 34, 33 and 1 are Sunday 00:00, Sunday 14:00, Sunday 15:00 and Monday
\* 23:00 UTC
DashKinds ==
    { [views |-> c.views, likes |-> c.likes, comments |-> c.comments, age |-> a] :
        c \in { [views |-> 1000, likes |-> 0, comments |-> 0],
                [views |-> 1000, likes |-> 50, comments |-> 5],
                [views |-> 2000, likes |-> 100, comments |-> 10] },
        a \in {48, 34, 33, 1} }

InitDash ==
    /\ Init

\* the caller adds a video to the sequence it will pass
AppendRow(k) ==
    /\ Len(videos_in) < MaxRows
    /\ ~scored.done
    /\ videos_in' = Append(videos_in, MkVideo(Len(videos_in) + 1, k))
    /\ UNCHANGED << scored, ledgerVars, thrVars, tz_offset, stats, runVars >>

\* lines 344-387: create_dashboard on a frame of the scorer's output
Dashboard ==
    /\ scored.done
    /\ ~stats.done
    /\ stats' = [done |-> TRUE, ret |-> create_dashboard(scored.out)]
    /\ UNCHANGED << videos_in, scored, ledgerVars, thrVars, tz_offset, runVars >>

NextDash ==
    \/ \E k \in DashKinds : AppendRow(k)
    \/ Score
    \/ Dashboard

SpecDash == InitDash /\ [][NextDash]_vars

---------------------------------------------------------------------------
(* run_analysis, one call per execution of the script.  Streamlit keeps    *)
(* st.session_state from one execution of the script to the next, runs the *)
(* executions of one session one after the other, and stops a running      *)
(* execution when the user interacts with a widget: the script's next st   *)
(* call raises a control exception, which is a BaseException and so passes *)
(* every `except Exception`.                                               *)

\* st.session_state.analysis_in_progress = v
SetFlag(ss, v) ==
    [k \in DOMAIN ss \cup {"analysis_in_progress"} |->
        IF k = "analysis_in_progress" THEN v ELSE ss[k]]

\* lines 544-545: the flag is created as False when the session has none
WithFlag(ss) == IF "analysis_in_progress" \in DOMAIN ss THEN ss ELSE SetFlag(ss, FALSE)

\* what the run has done so far
RunLog(how, set_flag, got_data, count_at_start) ==
    [how |-> how, set_flag |-> set_flag, got_data |-> got_data,
     count_at_start |-> count_at_start]

InitRun ==
    /\ InitInstance
    /\ IdleRun
    /\ remaining_analysis_count \in 0..MaxCount

\* the run is over: how = the way it ended
RunEnds(how) ==
    /\ run_pc' = "ended"
    /\ run_log' = [run_log EXCEPT !.how = how]

\* lines 628-630: the handler of every Exception raised in run_analysis
OnRunError ==
    /\ session_state' = SetFlag(session_state, FALSE)
    /\ RunEnds("exception")

\* lines 1143-1145 and 1140-1141: the script is executed, a new instance is
\* constructed and the start button calls run_analysis; then lines 537-559.
\* has_key = self.youtube_api_key is set, select_raises = the query of the
\* users table raises
RunStart(has_key, select_raises) ==
    /\ run_pc \in {"idle", "ended"}
    /\ nops < MaxOps
    /\ quota_used' = 0
    /\ cache' = EmptyCache
    /\ LET ss == WithFlag(session_state)
           log == RunLog("running", FALSE, FALSE, remaining_analysis_count)
       IN IF ~has_key
          THEN /\ session_state' = session_state
               /\ remaining_count' = 0
               /\ run_pc' = "ended"
               /\ run_log' = [log EXCEPT !.how = "nokey"]
          ELSE IF ss["analysis_in_progress"]
          THEN /\ session_state' = ss
               /\ remaining_count' = 0
               /\ run_pc' = "ended"
               /\ run_log' = [log EXCEPT !.how = "reentry"]
          ELSE IF select_raises
          THEN /\ session_state' = SetFlag(ss, FALSE)
               /\ remaining_count' = 0
               /\ run_pc' = "ended"
               /\ run_log' = [log EXCEPT !.how = "exception"]
          ELSE IF remaining_analysis_count <= 0
          THEN /\ session_state' = ss
               /\ remaining_count' = remaining_analysis_count
               /\ run_pc' = "ended"
               /\ run_log' = [log EXCEPT !.how = "nocount"]
          ELSE /\ session_state' = SetFlag(ss, TRUE)
               /\ remaining_count' = remaining_analysis_count
               /\ run_pc' = "l562"
               /\ run_log' = [log EXCEPT !.set_flag = TRUE]
    /\ UNCHANGED << op, arg, ret, calls, shown, quota_before, cache_before, hits,
                    completed, repeat, outcomes, nops, remaining_analysis_count,
                    thrVars, scoreVars, tz_offset, stats >>

\* lines 562-563, build() raises: the handler of lines 628-630
RunBuildFails ==
    /\ run_pc = "l562"
    /\ OnRunError
    /\ UNCHANGED << ledgerVars, remaining_analysis_count, remaining_count,
                    thrVars, scoreVars, tz_offset, stats >>

\* lines 562-568: collect_videos_data, and the end of the run when it
\* collected nothing
RunCollect(keyword, date_range, n, r) ==
    /\ run_pc = "l562"
    /\ CollectDone(keyword, date_range, n, r)
    /\ IF r.ret.val = << >>
       THEN /\ session_state' = SetFlag(session_state, FALSE)
            /\ RunEnds("nodata")
       ELSE /\ session_state' = session_state
            /\ run_pc' = "l571"
            /\ run_log' = [run_log EXCEPT !.got_data = TRUE]
    /\ UNCHANGED << remaining_analysis_count, remaining_count >>

\* lines 570-611: the keyword is recorded (a failure there is only warned
\* about, lines 602-607) and the users table is updated with remaining_count
\* - 1; update_raises = the update raises
RunSave(update_raises) ==
    /\ run_pc = "l571"
    /\ IF update_raises
       THEN /\ OnRunError
            /\ UNCHANGED remaining_analysis_count
       ELSE /\ remaining_analysis_count' = remaining_count - 1
            /\ run_pc' = "l614"
            /\ UNCHANGED << session_state, run_log >>
    /\ UNCHANGED << ledgerVars, remaining_count, thrVars, scoreVars, tz_offset, stats >>

\* lines 613-626: the dashboard and the AI analysis, the flag is released and
\* the new count is shown; raises = one of them raises
RunShow(raises) ==
    /\ run_pc = "l614"
    /\ IF raises
       THEN OnRunError
       ELSE /\ session_state' = SetFlag(session_state, FALSE)
            /\ RunEnds("success")
    /\ UNCHANGED << ledgerVars, remaining_analysis_count, remaining_count,
                    thrVars, scoreVars, tz_offset, stats >>

\* the user interacts with a widget while the run is between lines 558 and
\* 622: the next st call of the script raises Streamlit's control exception,
\* which no handler of run_analysis catches, and the execution ends
RunInterrupted ==
    /\ run_pc \in {"l562", "l571", "l614"}
    /\ RunEnds("interrupted")
    /\ UNCHANGED << session_state, ledgerVars, remaining_analysis_count, remaining_count,
                    thrVars, scoreVars, tz_offset, stats >>

NextRun ==
    \/ \E has_key, select_raises \in BOOLEAN : RunStart(has_key, select_raises)
    \/ RunBuildFails
    \/ \E q \in Requests, x \in CollectInputs :
          RunCollect(q.keyword, q.date_range, x.n,
                     collect_videos_data(quota_used, cache, q.keyword, q.date_range,
                                         x.n, x.sfail, x.stfail, x.cfail))
    \/ \E update_raises \in BOOLEAN : RunSave(update_raises)
    \/ \E raises \in BOOLEAN : RunShow(raises)
    \/ RunInterrupted

SpecRun == InitRun /\ [][NextRun]_vars

---------------------------------------------------------------------------
(* Properties of the quota ledger                                          *)

\* C1: in every reachable state quota_used <= quota_limit
C1_UsedWithinLimit == quota_used <= quota_limit

\* a reserve that would have crossed the limit was refused on a used ledger
C1_Witness ==
    /\ op = "check_quota"
    /\ quota_before > 0
    /\ quota_before + arg > quota_limit
    /\ quota_used = quota_before

\* C2: a reserve of cost c fails exactly when used + c > limit and then leaves
\* used as it was; otherwise it succeeds and adds exactly c to used.  The
\* reserves inside a collect obey the same rule: the costs of those that
\* succeeded add up to the debit of the collect, and one that failed would
\* have crossed the limit.
CostUpTo(log, k) ==
    SeqSum([i \in 1..k |-> IF log[i].ev = "check_quota" /\ log[i].ok
                           THEN log[i].n ELSE 0])

C2_ReserveExact ==
    /\ op = "check_quota" =>
          IF quota_before + arg > quota_limit
          THEN ret.kind = "raise" /\ quota_used = quota_before
          ELSE ret.kind = "return" /\ quota_used = quota_before + arg
    /\ op = "collect" =>
          /\ quota_used = quota_before + CostUpTo(calls, Len(calls))
          /\ \A i \in 1..Len(calls) :
                calls[i].ev = "check_quota" =>
                   (calls[i].ok <=>
                      quota_before + CostUpTo(calls, i - 1) + calls[i].n <= quota_limit)

\* a reserve that reaches the limit exactly succeeds, after an earlier one
C2_Witness ==
    /\ op = "check_quota"
    /\ ret.kind = "return"
    /\ quota_before > 0
    /\ arg > 0
    /\ quota_used = quota_limit

\* C3: under every interleaving of concurrent callers of check_quota,
\* quota_used <= quota_limit, and once no call is in progress quota_used is
\* the sum of the costs of the calls that returned
C3_AtomicReserve ==
    /\ quota_used <= quota_limit
    /\ (\A t \in ThreadIds : thr_pc[t] \in {"returned", "raised"}) =>
          quota_used = SeqSum([t \in ThreadIds |->
                                   IF thr_pc[t] = "returned" THEN thr_cost[t] ELSE 0])

---------------------------------------------------------------------------
(* Properties of the collector and the cache                               *)

IsRemote(e) == e.ev \in {"search", "statistics", "comments"}

ReserveFailedAt(i) == calls[i].ev = "check_quota" /\ ~calls[i].ok

FetchFailed(id) ==
    \E k \in 1..Len(calls) :
       calls[k].ev = "comments" /\ calls[k].id = id /\ ~calls[k].ok

FetchAttempted(id) ==
    \E k \in 1..Len(calls) : calls[k].ev = "comments" /\ calls[k].id = id

\* the reserve of the video was attempted, and its fetch too when the reserve
\* went through
ReservedThenFetched(id) ==
    \E k \in 1..Len(calls) :
       /\ calls[k].ev = "check_quota" /\ calls[k].id = id
       /\ calls[k].ok =>
             /\ k < Len(calls)
             /\ calls[k + 1].ev = "comments" /\ calls[k + 1].id = id

\* the collect ran to its end: it stored its result under the key and
\* returned what it stored
ReturnedResult == arg \in DOMAIN cache /\ ret = Return(cache[arg])

\* C4: the outcome collect gives its caller when a reserve fails before the
\* search or the statistics call differs from every outcome of a non-quota
\* remote failure and of a collection that found no data
C4_QuotaOutcomeDistinct ==
    outcomes["quota"] \cap (outcomes["remote"] \cup outcomes["nodata"]) = {}

\* C5: a reserve that fails in a collect ends the attempt: no remote call
\* follows it and the attempt neither caches nor returns a result set
C5_QuotaFailureFatal ==
    op = "collect" =>
       \A i \in 1..Len(calls) :
          ReserveFailedAt(i) =>
             /\ \A j \in (i + 1)..Len(calls) : ~IsRemote(calls[j])
             /\ cache = cache_before
             /\ ret.val = << >>

\* C6: a collect with a (keyword, date_range) for which an earlier collect of
\* the process ran to its end leaves quota_used as it was, makes no remote
\* call and returns the stored result
C6_SecondCallFree ==
    (op = "collect" /\ repeat) =>
       /\ quota_used = quota_before
       /\ calls = << >>
       /\ arg \in DOMAIN cache_before
       /\ ret = Return(cache_before[arg])

\* C7: no step of the process removes or replaces a cache entry or lowers
\* quota_used
C7_NeverReset ==
    [][ /\ \A k \in DOMAIN cache : k \in DOMAIN cache' /\ cache'[k] = cache[k]
        /\ quota_used' >= quota_used ]_vars

\* C8 as stated: after a failed comment fetch the video has an empty comment
\* list, the comment fetch of every later video is attempted, and the
\* collect returns its result
C8_CommentFailureIsolated ==
    op = "collect" =>
       \A i \in 1..Len(hits) :
          FetchFailed(hits[i]) =>
             /\ \A k \in 1..Len(ret.val) :
                   ret.val[k].id = hits[i] => ret.val[k].comments_data = << >>
             /\ \A j \in (i + 1)..Len(hits) : FetchAttempted(hits[j])
             /\ ReturnedResult

\* C8 amended: after a failed comment fetch the video has an empty comment
\* list, the reserve of every later video is attempted and its comment fetch
\* whenever that reserve succeeds, and the collect returns its result
C8_CommentFailureIsolatedUnlessQuota ==
    op = "collect" =>
       \A i \in 1..Len(hits) :
          FetchFailed(hits[i]) =>
             /\ \A k \in 1..Len(ret.val) :
                   ret.val[k].id = hits[i] => ret.val[k].comments_data = << >>
             /\ \A j \in (i + 1)..Len(hits) : ReservedThenFetched(hits[j])
             /\ ReturnedResult

\* the first video's fetch failed, a later video's succeeded, and both are in
\* the returned result, the first without comments and the later with them
C8_Witness ==
    /\ op = "collect"
    /\ Len(hits) >= 2
    /\ FetchFailed(hits[1])
    /\ Len(ret.val) >= 2
    /\ \E k \in 1..Len(ret.val) :
          ret.val[k].id = hits[1] /\ ret.val[k].comments_data = << >>
    /\ \E k \in 1..Len(ret.val) :
          ret.val[k].id = hits[2] /\ ret.val[k].comments_data # << >>

\* C9: a search or statistics call that fails is the last remote call of the
\* attempt and is made once; the collect returns the empty list and the cache
\* is as before, with no entry for the key
C9_RemoteFailureTerminal ==
    op = "collect" =>
       \A i \in 1..Len(calls) :
          (calls[i].ev \in {"search", "statistics"} /\ ~calls[i].ok) =>
             /\ \A j \in (i + 1)..Len(calls) : ~IsRemote(calls[j])
             /\ \A j \in 1..Len(calls) : calls[j].ev = calls[i].ev => j = i
             /\ ret = Return(<< >>)
             /\ cache = cache_before
             /\ arg \notin DOMAIN cache

\* the statistics call failed after the search and both reserves went
\* through, on an instance that holds a result for another key
C9_Witness ==
    /\ op = "collect"
    /\ \E i \in 1..Len(calls) : calls[i].ev = "statistics" /\ ~calls[i].ok
    /\ quota_used > quota_before + SearchCost
    /\ DOMAIN cache_before # {}

---------------------------------------------------------------------------
(* Properties of the scorer                                                *)

\* C10: the scorer's output has length <= min(20, number of records that
\* survive the outlier removal), is sorted in non-increasing engagement_score,
\* and records with equal engagement_score keep their input order (a
\* record's id is its position in the input)
C10_SortedStableTop ==
    scored.done =>
       LET out == scored.out
       IN /\ Len(out) <= Min(TopN, Len(Survivors(videos_in)))
          /\ \A i \in 1..Len(out), j \in 1..Len(out) :
                i < j =>
                   /\ ~FracLess(out[i].engagement_score, out[j].engagement_score)
                   /\ out[i].engagement_score = out[j].engagement_score =>
                         out[i].id < out[j].id

\* more than 20 survivors, fewer than the input holds, cut to 20; the output
\* holds a tie and a strict descent, and the sort moved the first input record
C10_Witness ==
    /\ scored.done
    /\ Len(Survivors(videos_in)) > TopN
    /\ Len(Survivors(videos_in)) < Len(videos_in)
    /\ Len(scored.out) = TopN
    /\ scored.out[1].id # 1
    /\ \E i \in 1..(TopN - 1) :
          scored.out[i].engagement_score = scored.out[i + 1].engagement_score
    /\ \E i \in 1..(TopN - 1) :
          FracLess(scored.out[i + 1].engagement_score, scored.out[i].engagement_score)

\* A comment ratio r is strictly greater than mean + 2 x population standard
\* deviation of the comment ratios of the records with views > 0, the
\* deviation taken as the root of the mean squared distance from the mean:
\* with R_i the ratios over a common denominator, n their number and S their
\* sum, n*r - S > 0 and n * (n*r - S)^2 > 4 * sum of (n*R_i - S)^2
SquaredDistances(R, S) ==
    SeqSum([i \in 1..Len(R) |-> (Len(R) * R[i] - S) * (Len(R) * R[i] - S)])

AboveGiven(r, n, S, sq) == n > 0 /\ (n * r - S) > 0 /\ n * (n * r - S) * (n * r - S) > 4 * sq

\* the positions in videos of the records above the threshold
AboveFor(videos, L, n, S, sq) ==
    { i \in 1..Len(videos) : AboveGiven(RatioOver(videos[i], L), n, S, sq) }

AboveAmong(videos, R, L) ==
    AboveFor(videos, L, Len(R), SeqSum(R), SquaredDistances(R, SeqSum(R)))

AboveOver(videos, pos, L) ==
    AboveAmong(videos, [i \in 1..Len(pos) |-> RatioOver(pos[i], L)], L)

AboveWithViews(videos, pos) ==
    AboveOver(videos, pos, SeqLCM([i \in 1..Len(pos) |-> pos[i].views]))

AboveThreshold(videos) == AboveWithViews(videos, WithViews(videos))

\* kept holds exactly the records of videos_in that are not in above, out
\* holds none of above, and nothing is lost when all ratios are identical
ExcludesExactly(kept, out, above) ==
    /\ { kept[k].id : k \in 1..Len(kept) } = (1..Len(videos_in)) \ above
    /\ \A k \in 1..Len(out) : out[k].id \notin above
    /\ (\A i, j \in 1..Len(videos_in) :
           Ratio(videos_in[i].comments, videos_in[i].views)
              = Ratio(videos_in[j].comments, videos_in[j].views))
          => Len(kept) = Len(videos_in)

\* C11: the outlier step excludes a record exactly when its comment_ratio is
\* strictly greater than mean + 2 x population standard deviation of the
\* batch's comment ratios (over records with views > 0); no returned record
\* exceeds the threshold, and a batch whose comment ratios are all identical
\* loses no record
C11_OutlierExactlyAbove ==
    (scored.done /\ videos_in # << >>) =>
       ExcludesExactly(Survivors(videos_in), scored.out, AboveThreshold(videos_in))

\* a batch with records on both sides of the threshold: one with comments is
\* excluded and the others, some of them with views = 0, are returned
C11_Witness ==
    /\ scored.done
    /\ AboveThreshold(videos_in) # {}
    /\ \E k \in 1..Len(scored.out) : scored.out[k].views = 0
    /\ Len(scored.out) = Len(videos_in) - 1
    /\ Len(scored.out) < TopN

\* the scorer completed on videos_in: every record with views = 0 is among
\* the records kept, with ratios and score 0
ZeroViewsKept(kept, out) ==
    /\ Len(out) = Min(TopN, Len(kept))
    /\ \A i \in 1..Len(videos_in) :
          videos_in[i].views = 0 =>
             \E k \in 1..Len(kept) :
                /\ kept[k].id = i
                /\ kept[k].comment_ratio = Frac(0, 1)
                /\ kept[k].like_ratio = Frac(0, 1)
                /\ kept[k].engagement_score = Frac(0, 1)
    /\ \A k \in 1..Len(out) :
          out[k].views = 0 =>
             /\ out[k].comment_ratio = Frac(0, 1)
             /\ out[k].like_ratio = Frac(0, 1)

\* C12: a record with views = 0 never causes a division error, whatever the
\* batch holds: the scorer completes, the record passes the outlier step, and
\* its comment_ratio, like_ratio and engagement_score are 0
C12_ZeroViewsSafe ==
    scored.done => ZeroViewsKept(Survivors(videos_in), scored.out)

\* a batch in which every record has views = 0 and likes and comments > 0 was
\* scored and all its records were returned
C12_Witness ==
    /\ scored.done
    /\ Len(videos_in) >= 2
    /\ \A i \in 1..Len(videos_in) :
          videos_in[i].views = 0 /\ videos_in[i].likes > 0 /\ videos_in[i].comments > 0
    /\ Len(scored.out) = Len(videos_in)

\* the publish instant lies within the 7 days before the evaluation instant
WithinLastWeek(publishedAt) ==
    publishedAt > NowHours - 24 * WeekDays /\ publishedAt <= NowHours

\* C13: for every returned record engagement_score = (like_ratio + 3 x
\* comment_ratio) x m, with m = 1.2 exactly when the publish instant lies
\* within the 7 days before the evaluation instant and m = 1.0 otherwise
\* (so a record published 2 days ago scores 1.2 times one with the same
\* ratios published 30 days ago)
C13_RecencyMultiplier ==
    scored.done =>
       \A k \in 1..Len(scored.out) :
          LET r == scored.out[k]
              m10 == IF WithinLastWeek(r.publishedAt) THEN 12 ELSE 10
          IN /\ r.is_recent = WithinLastWeek(r.publishedAt)
             /\ 10 * r.engagement_score.num * r.like_ratio.den * r.comment_ratio.den
                   = m10 * r.engagement_score.den
                         * (r.like_ratio.num * r.comment_ratio.den
                              + 3 * r.comment_ratio.num * r.like_ratio.den)

---------------------------------------------------------------------------
(* Further properties of the collector                                     *)

\* C17: every record in the result of collect has a view count >= 1000, and
\* a search hit whose statistics are absent from the statistics response is
\* not in the result
C17_MinViews ==
    (op = "collect" /\ ret.kind = "return") =>
       /\ \A k \in 1..Len(ret.val) :
             ret.val[k].views >= 1000 /\ StatsOf(ret.val[k].id).has
       /\ \A i \in 1..Len(hits) :
             (~StatsOf(hits[i]).has \/ StatsOf(hits[i]).views < 1000) =>
                \A k \in 1..Len(ret.val) : ret.val[k].id # hits[i]

\* a collect whose hits were one without statistics and one with 999 views
\* ran to its end and returned nothing, on an instance whose cache holds a
\* result with a record of exactly 1000 views
C17_Witness ==
    /\ op = "collect"
    /\ \E i \in 1..Len(hits) : ~StatsOf(hits[i]).has
    /\ \E i \in 1..Len(hits) : StatsOf(hits[i]).has /\ StatsOf(hits[i]).views = 999
    /\ \E i \in 1..Len(calls) : calls[i].ev = "comments" /\ calls[i].ok
    /\ ret = Return(<< >>)
    /\ arg \in DOMAIN cache
    /\ \E key \in DOMAIN cache_before :
          \E k \in 1..Len(cache_before[key]) : cache_before[key][k].views = 1000

\* the cost the collect reserves for a remote call
CostOf(e) ==
    CASE e.ev = "search" -> 100
      [] e.ev = "statistics" -> Len(hits)
      [] e.ev = "comments" -> 1

\* C19: in every collect each remote call (search, statistics batch, each
\* per-video comment fetch) comes straight after a successful reserve made
\* for that call; no remote call follows a reserve that failed; and the
\* statistics call comes before every comment call
C19_ReserveBeforeCall ==
    op = "collect" =>
       /\ \A i \in 1..Len(calls) :
             IsRemote(calls[i]) =>
                /\ i > 1
                /\ calls[i - 1].ev = "check_quota"
                /\ calls[i - 1].ok
                /\ calls[i - 1].n = CostOf(calls[i])
                /\ calls[i - 1].id = calls[i].id
       /\ \A i \in 1..Len(calls) :
             ReserveFailedAt(i) => (i = Len(calls) \/ ~IsRemote(calls[i + 1]))
       /\ \A i \in 1..Len(calls) :
             calls[i].ev = "comments" =>
                \E j \in 1..(i - 1) : calls[j].ev = "statistics" /\ calls[j].ok

\* all three kinds of remote call were made, each after its reserve, and the
\* reserve of the last video failed, after which nothing was fetched
C19_Witness ==
    /\ op = "collect"
    /\ Len(calls) = 7
    /\ calls[1].ev = "check_quota" /\ calls[2].ev = "search"
    /\ calls[3].ev = "check_quota" /\ calls[4].ev = "statistics"
    /\ calls[5].ev = "check_quota" /\ calls[6].ev = "comments"
    /\ ReserveFailedAt(7)

\* the last collect missed the cache, its search returned at least one hit
\* and none of its reserves failed
MissWithHitsAllReserved ==
    /\ op = "collect"
    /\ calls # << >>
    /\ Len(hits) >= 1
    /\ \A i \in 1..Len(calls) : ~ReserveFailedAt(i)

\* C20 as stated: a cache-miss collect in which the search returns n >= 1
\* hits and no reserve fails raises quota_used by exactly 100 + n + n
C20_DebitPerHit ==
    MissWithHitsAllReserved =>
       quota_used = quota_before + 100 + Len(hits) + Len(hits)

\* C20 amended: a cache-miss collect in which the search returns n >= 1 hits,
\* no reserve fails and the statistics call succeeds raises quota_used by
\* exactly 100 + n + n, whether or not the comment fetches succeed
C20_DebitPerHitWhenStatsOk ==
    (/\ MissWithHitsAllReserved
     /\ \E i \in 1..Len(calls) : calls[i].ev = "statistics" /\ calls[i].ok) =>
       quota_used = quota_before + 100 + Len(hits) + Len(hits)

\* two hits, no reserve failed, the comment fetch of one video failed and
\* that of the other did not, and the debit is 104
C20_Witness ==
    /\ MissWithHitsAllReserved
    /\ Len(hits) = 2
    /\ FetchFailed(hits[1])
    /\ ~FetchFailed(hits[2])
    /\ quota_before > 0
    /\ quota_used = quota_before + 104

\* the last collect missed the cache and its search returned no hit
SearchFoundNothing ==
    /\ op = "collect"
    /\ hits = << >>
    /\ \E i \in 1..Len(calls) : calls[i].ev = "search" /\ calls[i].ok

\* C21: an empty result set is not an error: when the search returns zero
\* hits the collect makes no statistics or comment call, debits only the
\* search cost, and returns an empty sequence without raising or showing an
\* error; and the scorer given an empty sequence returns an empty sequence
C21_EmptyIsNotAnError ==
    /\ SearchFoundNothing =>
          /\ \A i \in 1..Len(calls) : calls[i].ev \notin {"statistics", "comments"}
          /\ Len(calls) = 2
          /\ quota_used = quota_before + 100
          /\ ret = [kind |-> "return", val |-> << >>]
          /\ shown = ""
    /\ calculate_engagement_scores(<< >>) = << >>

\* a search with no hit on an instance that has debited before and holds a
\* non-empty result for another key
C21_Witness ==
    /\ SearchFoundNothing
    /\ quota_before > 0
    /\ quota_used = quota_before + 100
    /\ \E key \in DOMAIN cache_before : cache_before[key] # << >>
    /\ arg \in DOMAIN cache

---------------------------------------------------------------------------
(* Properties of the temporal tables                                       *)

\* the weekday (0 = Monday) and the hour of the bucket a publish instant
\* belongs to: the hour is (UTC hour + 9) mod 24, the weekday is that of the
\* following day exactly when the UTC hour is >= 15
BucketHour(publishedAt) == ((publishedAt % 24) + 9) % 24

BucketDay(publishedAt) ==
    (((publishedAt \div 24) % 7) + (IF publishedAt % 24 >= 15 THEN 1 ELSE 0)) % 7

\* the number of records of the dashboard's input in a weekday / hour bucket
InDay(d) ==
    Cardinality({ i \in 1..Len(scored.out) : BucketDay(scored.out[i].publishedAt) = d })

InHour(h) ==
    Cardinality({ i \in 1..Len(scored.out) : BucketHour(scored.out[i].publishedAt) = h })

\* every aggregate of the row is zero
ZeroRow(row) ==
    \A col \in {"views_mean", "views_sum", "count", "comments_mean", "comments_sum",
                "likes_mean", "likes_sum", "engagement_mean"} :
       row[col] = [nan |-> FALSE, v |-> 0]

\* C14: for every input sequence, the empty one included, the weekday table
\* has exactly 7 rows in the order Monday..Sunday and the hour table has
\* exactly 24 rows for the hours 0..23
C14_TablesComplete ==
    stats.done =>
       /\ stats.ret.kind = "return"
       /\ Len(stats.ret.val.weekday_stats) = 7
       /\ [i \in 1..7 |-> stats.ret.val.weekday_stats[i].key]
             = << "Monday", "Tuesday", "Wednesday", "Thursday", "Friday", "Saturday",
                  "Sunday" >>
       /\ Len(stats.ret.val.hourly_stats) = 24
       /\ \A i \in 1..24 : stats.ret.val.hourly_stats[i].key = i - 1

\* C15: in both tables every bucket with no member record carries zero-valued
\* aggregates (count, sums and means all 0), not missing values
C15_EmptyBucketsZero ==
    (stats.done /\ stats.ret.kind = "return") =>
       /\ \A i \in 1..7 :
             InDay(i - 1) = 0 => ZeroRow(stats.ret.val.weekday_stats[i])
       /\ \A i \in 1..24 :
             InHour(i - 1) = 0 => ZeroRow(stats.ret.val.hourly_stats[i])

\* the key is that of the first row of t that holds the greatest value of col
FirstMax(t, col, key) ==
    \E i \in 1..Len(t) :
       /\ t[i].key = key
       /\ ~t[i][col].nan
       /\ \A j \in 1..Len(t) :
             ~t[j][col].nan =>
                /\ t[j][col].v <= t[i][col].v
                /\ j < i => t[j][col].v < t[i][col].v

\* C16: in each table the reported peak for mean views and the reported peak
\* for mean engagement score is a bucket whose value is the maximum of its
\* column, the earliest in canonical order when several buckets tie
C16_PeakIsFirstMax ==
    (stats.done /\ stats.ret.kind = "return") =>
       LET r == stats.ret.val
       IN /\ FirstMax(r.weekday_stats, "views_mean", r.weekday_peaks.max_views)
          /\ FirstMax(r.weekday_stats, "engagement_mean", r.weekday_peaks.max_engagement)
          /\ FirstMax(r.hourly_stats, "views_mean", r.hourly_peaks.max_views)
          /\ FirstMax(r.hourly_stats, "engagement_mean", r.hourly_peaks.max_engagement)
          /\ \E i \in 1..7 : /\ r.weekday_stats[i].key = r.weekday_peaks.max_views
                             /\ r.weekday_stats[i].views_mean = r.weekday_peaks.max_views_value
          /\ \E i \in 1..24 : /\ r.hourly_stats[i].key = r.hourly_peaks.max_views
                              /\ r.hourly_stats[i].views_mean = r.hourly_peaks.max_views_value

\* two weekday buckets and two hour buckets tie for the greatest mean
\* engagement score, above a third, and the earlier of the two is reported
TiedPeak(t, key) ==
    \E i, j, k \in 1..Len(t) :
       /\ i < j
       /\ t[i].key = key
       /\ ~t[i].engagement_mean.nan /\ ~t[j].engagement_mean.nan /\ ~t[k].engagement_mean.nan
       /\ t[i].engagement_mean.v = t[j].engagement_mean.v
       /\ t[k].engagement_mean.v < t[i].engagement_mean.v
       /\ t[k].count.v > 0
       /\ k < i

C16_Witness ==
    /\ stats.done
    /\ stats.ret.kind = "return"
    /\ TiedPeak(stats.ret.val.weekday_stats, stats.ret.val.weekday_peaks.max_engagement)
    /\ TiedPeak(stats.ret.val.hourly_stats, stats.ret.val.hourly_peaks.max_engagement)

\* the number of records a row stands for, none when its count is missing
Members(row) == IF row.count.nan THEN 0 ELSE row.count.v

\* C18: each record is bucketed by its publish instant converted from UTC to
\* Asia/Seoul (UTC+9): the count of each hour row is the number of records
\* whose (UTC hour + 9) mod 24 is that hour, and the count of each weekday row
\* the number of records whose weekday, moved to the following day exactly
\* when the UTC hour is >= 15, is that weekday
C18_SeoulBuckets ==
    (stats.done /\ stats.ret.kind = "return") =>
       /\ \A i \in 1..24 : Members(stats.ret.val.hourly_stats[i]) = InHour(i - 1)
       /\ \A i \in 1..7 : Members(stats.ret.val.weekday_stats[i]) = InDay(i - 1)

\* records published on a Sunday at 14:00 and at 15:00 UTC were counted in
\* Sunday 23:00 and in Monday 00:00
C18_Witness ==
    /\ stats.done
    /\ stats.ret.kind = "return"
    /\ \E i, j \in 1..Len(scored.out) :
          /\ (scored.out[i].publishedAt \div 24) % 7 = 6 /\ scored.out[i].publishedAt % 24 = 14
          /\ (scored.out[j].publishedAt \div 24) % 7 = 6 /\ scored.out[j].publishedAt % 24 = 15
    /\ stats.ret.val.weekday_stats[7].count.v = 1
    /\ stats.ret.val.hourly_stats[24].count.v = 1
    /\ stats.ret.val.weekday_stats[1].count.v >= 1
    /\ stats.ret.val.hourly_stats[1].count.v >= 1

---------------------------------------------------------------------------
(* Properties of run_analysis *)

\* the session has the flag and it is set
InProgress ==
    /\ "analysis_in_progress" \in DOMAIN session_state
    /\ session_state["analysis_in_progress"]

\* C22: the analysis_in_progress flag guards against re-entry and is always
\* released: a run that finds the flag set changes nothing, every run that set
\* the flag has ended with the flag false, and the user's remaining analysis
\* count changes only by one decrement on a run that collected a non-empty
\* result.
C22_FlagReleased ==
    /\ (run_pc = "ended" /\ run_log.how = "reentry") =>
          /\ ~run_log.set_flag
          /\ ~run_log.got_data
          /\ remaining_analysis_count = run_log.count_at_start
    /\ (run_pc = "ended" /\ run_log.set_flag) => ~InProgress
    /\ (run_pc # "idle" /\ remaining_analysis_count # run_log.count_at_start) =>
          /\ run_log.got_data
          /\ remaining_analysis_count = run_log.count_at_start - 1

=============================================================================
